---- MODULE Spec2Model ----
(***************************************************************************)
(* KrakenChain: the Merkle commitment (merkle_tree.rs), the mempool, the   *)
(* chain, the proof-of-work search and the difficulty adjustment of the    *)
(* ledger (blockchain.rs, block.rs), modelled as state machines.           *)
(*                                                                         *)
(* Money (amount, fee, balance) is counted in units of 0.00001 coin, so    *)
(* that MIN_FEE_RATE is 1 unit per byte and fee / size comparisons are     *)
(* exact integer cross-multiplications.  Sizes are bytes.  SHA-256 is a    *)
(* collision-free symbolic term: a flat sequence of naturals, ordered      *)
(* lexicographically as byte strings are.                                  *)
(***************************************************************************)
EXTENDS Integers, Sequences, FiniteSets, TLC

\* ------------------------------------------------------------------ bounds
\* The clock (chrono::Utc::now().timestamp()) runs over 0..MaxTime.
MaxTime == 1
\* add_balance stops funding an address at this balance.
MaxBalance == 10000
\* max_mempool_size_bytes (5_000_000 in Blockchain::new), scaled down so that
\* two ordinary transactions fit and a third, or one with a long recipient
\* string, does not.
MaxMempoolSizeBytes == 800
\* add_to_mempool is not called once the tracked byte counter would pass this.
MaxTrackedBytes == 1200
\* Longest transaction list a Merkle tree is built over.
MaxTxs == 4
\* Width of the leading part of a block hash that is compared with the
\* target (128 bits in mine_block and is_valid_new_block), scaled down.
HashBits == 6
\* The limit on the transactions of a block (1000 in is_valid_new_block and
\* in the call get_transactions_from_mempool(1000)), scaled down so that the
\* three transfers of main.rs and the reward fit one block.
BlockTxLimit == 4
\* The limit on the summed amounts of a block (1_000_000.0 coins in
\* is_valid_new_block), scaled down to 80 coins.
BlockValueLimit == 8000000
\* difficulty_adjustment_interval (10 in Blockchain::new), scaled down.
AdjustmentInterval == 2
\* The wall clock (chrono::Utc::now()) is read in ticks; block timestamps
\* keep the ticks, transaction timestamps and num_seconds() drop them.
TicksPerSecond == 2
\* The wall clock runs over 0..MaxClock while blocks are mined.
MaxClock == 16
\* mine_pending_transactions is not called on a chain of this length.
MaxChainLen == 3
\* num_cpus::get(): the number of worker threads of the search.
NumWorkers == 2
\* add_transaction is not called on a pending_transactions of this length.
MaxPending == 2

\* ------------------------------------------------------- program constants
MIN_FEE_RATE == 1
\* one coin, in units of 0.00001 coin
Coin == 100000
\* std::mem::size_of::<Transaction>() on a 64-bit target.
BaseSize == 128
\* hex::encode of a 64-byte Ed25519 signature.
SigHexLen == 128
\* max_transactions passed by mine_pending_transactions.
MaxTake == BlockTxLimit

\* --------------------------------------------------------------- addresses
\* "A", "B", "C": hex-encoded Ed25519 public keys (64 characters).
\* "L": a recipient string of 500 characters.  "G": a string that is not hex.
\* "Blockchain": the reserved sender of reward transactions.
Keys == {"A", "B", "C"}
Senders == {"A", "B"}
Addrs == {"A", "B", "C", "L", "G", "Blockchain"}

StrLen(s) ==
    CASE s \in Keys -> 64
      [] s = "L" -> 500
      [] s = "G" -> 5
      [] s = "Blockchain" -> 10

AddrCode(s) ==
    CASE s = "A" -> 1 [] s = "B" -> 2 [] s = "C" -> 3
      [] s = "L" -> 4 [] s = "G" -> 5 [] s = "Blockchain" -> 6

\* hex::decode(s) succeeds
IsHex(s) == s \in Keys

\* ------------------------------------------------------------ transactions
\* Transaction::calculate_hash: id, from, to, amount, timestamp (not the fee,
\* not the expiration, not the signature).
calculate_hash(tx) ==
    <<tx.id, AddrCode(tx.from), AddrCode(tx.to), tx.amount + 1, tx.timestamp + 1>>

NoSig == [kind |-> "None", key |-> "G", msg |-> <<>>]

\* Transaction::sign with the key pair whose public key is `key`.
sign(tx, key) ==
    [tx EXCEPT !.signature = [kind |-> "Sig", key |-> key, msg |-> calculate_hash(tx)]]

\* UnparsedPublicKey::new(ED25519, public_key).verify(message, signature)
verify(public_key, message, signature) ==
    /\ public_key \in Keys
    /\ signature.kind = "Sig"
    /\ signature.key = public_key
    /\ signature.msg = message

\* Transaction::is_valid: "true", "false", or "panic" when an unwrap of
\* hex::decode fails.
is_valid(tx) ==
    IF tx.from = "Blockchain" THEN "true"
    ELSE IF tx.amount <= 0 THEN "false"
    ELSE IF tx.signature.kind # "None"
         THEN IF ~IsHex(tx.from) \/ tx.signature.kind = "Garbage" THEN "panic"
              ELSE IF verify(tx.from, calculate_hash(tx), tx.signature)
                   THEN "true" ELSE "false"
         ELSE "false"

\* Blockchain::calculate_transaction_size
calculate_transaction_size(tx) ==
    BaseSize + StrLen(tx.from) + StrLen(tx.to)
             + (IF tx.signature.kind = "None" THEN 0
                ELSE IF tx.signature.kind = "Garbage" THEN 3 ELSE SigHexLen)

\* ------------------------------------------------------------ input domain
Ids == {1, 2, 3}
Fees == {1000, 2000}
Expirations == {0, 1}

Tx(id, from, to, amount, fee, expiration) ==
    [id |-> id, from |-> from, to |-> to, amount |-> amount, fee |-> fee,
     timestamp |-> 0, expiration |-> expiration, signature |-> NoSig]

\* Transactions created by Transaction::new and signed by their sender:
\* id 1 is sent by "A", id 2 by "A" or by "B", id 3 by "B"; two of them
\* carry a long recipient string, two a large amount.
SignedTxs ==
    { sign(Tx(s[1], s[2], "C", 3000, fee, e), s[2]) :
        s \in {<<1, "A">>, <<2, "A">>, <<2, "B">>}, fee \in Fees, e \in Expirations }
    \cup { sign(Tx(3, "B", "C", 3000, fee, 1), "B") : fee \in Fees }
    \cup { sign(Tx(2, "B", "L", 3000, fee, 1), "B") : fee \in Fees }
    \cup { sign(Tx(1, "A", "C", 9000, fee, 1), "A") : fee \in Fees }

\* Transactions a caller can also submit: unsigned, signed by another key,
\* a zero amount, a fee below the floor, a sender or signature that is not
\* hex, and the reserved sender, with an amount above zero and with one
\* below (Transaction::new takes any f64).
OddTxs ==
    { Tx(1, "A", "C", 3000, 1000, 1),
      sign(Tx(1, "A", "C", 3000, 1000, 1), "B"),
      sign(Tx(1, "A", "C", 0, 1000, 1), "A"),
      sign(Tx(2, "A", "C", 3000, 100, 1), "A"),
      sign(Tx(1, "G", "C", 3000, 1000, 1), "A"),
      [Tx(2, "A", "C", 3000, 1000, 1) EXCEPT
          !.signature = [kind |-> "Garbage", key |-> "G", msg |-> <<>>]],
      Tx(2, "Blockchain", "C", 3000, 1000, 1),
      Tx(3, "Blockchain", "C", -1000, 1000, 1) }

TxInputs == SignedTxs \cup OddTxs

NoTx == Tx(0, "G", "G", 0, 0, 0)

\* ------------------------------------------------------------------- state
VARIABLES
    chain,               \* Blockchain::chain
    balances,            \* Blockchain::balances (absent key = 0)
    mempool,             \* Blockchain::mempool
    mempool_size_bytes,  \* Blockchain::mempool_size_bytes
    now,                 \* chrono::Utc::now().timestamp()
    last_op,             \* the operation called last
    last_tx,             \* its transaction argument (NoTx if none)
    result,              \* what it returned: "Ok", an error message, "Panic"
    taken,               \* the list get_transactions_from_mempool returned
    removed,             \* entries the call dropped without returning them
    max_mempool_size_bytes,         \* Blockchain::max_mempool_size_bytes
    difficulty_adjustment_interval, \* Blockchain::difficulty_adjustment_interval
    mining_reward,       \* Blockchain::mining_reward
    target_block_time,   \* Blockchain::target_block_time, in ticks
    difficulty,          \* Blockchain::difficulty
    pending_transactions, \* Blockchain::pending_transactions
    clock,               \* chrono::Utc::now(), in ticks
    mined,               \* the block the last call mined, and the difficulty asked
    replays,             \* recalculate_balances calls made in a row, up to 2
    mineable_block,      \* the shared result slot of the search
    found,               \* the shared flag of the search
    found_lock,          \* the worker holding the mutex of `found` (0: free)
    w_pc,                \* each worker's position in its closure
    local_block,         \* each worker's local_block
    winner,              \* the worker that set `found` (0: none yet)
    slot_writes,         \* how often the search wrote mineable_block
    late_attempts,       \* each worker's hash attempts made after `found` was set
    mt_txs,              \* the transaction list MerkleTree::new is given
    mt_tree,             \* the MerkleTree built: root and nodes
    mt_tx,               \* the transaction get_proof / verify_proof is given
    mt_proof,            \* what get_proof returned (some = FALSE: None)
    mt_arg,              \* the proof verify_proof is given
    mt_verified,         \* what verify_proof returned
    mt_pc                \* "idle", "input", "built", "proved", "verified"

ledger == <<chain, balances, mempool, mempool_size_bytes>>
\* the fields Blockchain::new sets and no mempool operation writes
fields == <<max_mempool_size_bytes, difficulty_adjustment_interval,
            mining_reward, target_block_time, difficulty, pending_transactions>>
\* the state of the threads mine_pending_transactions spawns
search == <<mineable_block, found, found_lock, w_pc, local_block,
            winner, slot_writes, late_attempts>>
pool == <<chain, balances, mempool, mempool_size_bytes, now,
          last_op, last_tx, result, taken, removed, fields, clock, mined,
          replays, search>>
merkle == <<mt_txs, mt_tree, mt_tx, mt_proof, mt_arg, mt_verified, mt_pc>>
vars == <<chain, balances, mempool, mempool_size_bytes, now,
          last_op, last_tx, result, taken, removed,
          max_mempool_size_bytes, difficulty_adjustment_interval,
          mining_reward, target_block_time, difficulty, pending_transactions,
          clock, mined, replays,
          mineable_block, found, found_lock, w_pc, local_block,
          winner, slot_writes, late_attempts,
          mt_txs, mt_tree, mt_tx, mt_proof, mt_arg, mt_verified, mt_pc>>

\* ----------------------------------------------------------------- helpers
RECURSIVE SizeSum(_)
SizeSum(s) ==
    IF s = <<>> THEN 0 ELSE calculate_transaction_size(Head(s)) + SizeSum(Tail(s))

Range(s) == { s[i] : i \in 1..Len(s) }

Min(a, b) == IF a <= b THEN a ELSE b

\* Blockchain::get_balance
get_balance(bal, address) == bal[address]

\* a's fee rate is strictly greater than b's (fee / size, compared exactly)
RateGreater(a, b) ==
    a.fee * calculate_transaction_size(b) > b.fee * calculate_transaction_size(a)

\* One step of the stable sort of sort_mempool: x goes behind every entry
\* whose fee rate is not smaller than its own.
RECURSIVE SortInsert(_, _)
SortInsert(s, x) ==
    IF s = <<>> THEN <<x>>
    ELSE IF RateGreater(x, Head(s)) THEN <<x>> \o s
    ELSE <<Head(s)>> \o SortInsert(Tail(s), x)

RECURSIVE SortFrom(_, _)
SortFrom(done, rest) ==
    IF rest = <<>> THEN done ELSE SortFrom(SortInsert(done, Head(rest)), Tail(rest))

\* sort_mempool with the sort left out
sort_mempool_Omitted(mp) == mp

\* Blockchain::sort_mempool: stable sort by descending fee rate
sort_mempool(mp) == SortFrom(<<>>, mp)

\* self.mempool.iter().any(|tx| tx.id == id)
HasId(mp, id) == \E i \in 1..Len(mp) : mp[i].id = id

\* self.mempool.iter().position(|tx| tx.id == id); 0 stands for None
position(mp, id) ==
    IF HasId(mp, id) THEN CHOOSE i \in 1..Len(mp) :
                              /\ mp[i].id = id
                              /\ \A j \in 1..(i - 1) : mp[j].id # id
    ELSE 0

\* the double-spend test of add_to_mempool
DoubleSpend(mp, bal, tx) ==
    \E i \in 1..Len(mp) :
        /\ mp[i].from = tx.from
        /\ mp[i].amount + mp[i].fee
             > get_balance(bal, tx.from) - (tx.amount + tx.fee)

\* fee_rate < MIN_FEE_RATE, with fee_rate = fee / tx_size
FeeRateTooLow(tx) == tx.fee < MIN_FEE_RATE * calculate_transaction_size(tx)

\* Blockchain::evict_transactions: pop from the tail while there is no room
RECURSIVE evict_transactions(_, _, _)
evict_transactions(mp, bytes, required_space) ==
    IF bytes + required_space > max_mempool_size_bytes /\ mp # <<>>
    THEN LET r == evict_transactions(SubSeq(mp, 1, Len(mp) - 1),
                      bytes - calculate_transaction_size(mp[Len(mp)]),
                      required_space)
         IN  [r EXCEPT !.evicted = <<mp[Len(mp)]>> \o @]
    ELSE [mempool |-> mp, bytes |-> bytes, evicted |-> <<>>]

\* add_to_mempool without the test for an identifier already in the mempool
AddResult_NoDuplicateTest(mp, bal, t, tx) ==
    LET v == is_valid(tx) IN
    IF v = "panic" THEN "Panic"
    ELSE IF v = "false" THEN "Invalid transaction"
    ELSE IF get_balance(bal, tx.from) < tx.amount + tx.fee THEN "Insufficient balance"
    ELSE IF DoubleSpend(mp, bal, tx) THEN "Potential double-spend detected"
    ELSE IF tx.expiration < t THEN "Transaction has expired"
    ELSE IF FeeRateTooLow(tx) THEN "Transaction fee rate is too low"
    ELSE "Ok"

\* add_to_mempool with the identifier test moved behind the expiration test
AddResult_DuplicateTestLate(mp, bal, t, tx) ==
    LET v == is_valid(tx) IN
    IF v = "panic" THEN "Panic"
    ELSE IF v = "false" THEN "Invalid transaction"
    ELSE IF get_balance(bal, tx.from) < tx.amount + tx.fee THEN "Insufficient balance"
    ELSE IF DoubleSpend(mp, bal, tx) THEN "Potential double-spend detected"
    ELSE IF tx.expiration < t THEN "Transaction has expired"
    ELSE IF HasId(mp, tx.id) THEN "Transaction already in mempool"
    ELSE IF FeeRateTooLow(tx) THEN "Transaction fee rate is too low"
    ELSE "Ok"

\* The checks of add_to_mempool, in the order of the code.
AddResult(mp, bal, t, tx) ==
    LET v == is_valid(tx) IN
    IF v = "panic" THEN "Panic"
    ELSE IF v = "false" THEN "Invalid transaction"
    ELSE IF get_balance(bal, tx.from) < tx.amount + tx.fee THEN "Insufficient balance"
    ELSE IF DoubleSpend(mp, bal, tx) THEN "Potential double-spend detected"
    ELSE IF HasId(mp, tx.id) THEN "Transaction already in mempool"
    ELSE IF tx.expiration < t THEN "Transaction has expired"
    ELSE IF FeeRateTooLow(tx) THEN "Transaction fee rate is too low"
    ELSE "Ok"

\* the replace-by-fee test with < in place of <=
FeeNotHigher_Strict(new_tx, old_tx) == new_tx.fee < old_tx.fee

\* new_transaction.fee <= old_tx.fee
FeeNotHigher(new_tx, old_tx) == new_tx.fee <= old_tx.fee

\* The checks of replace_transaction, in the order of the code.
ReplaceResult(mp, bal, tx) ==
    LET v == is_valid(tx) IN
    IF v = "panic" THEN "Panic"
    ELSE IF v = "false" THEN "Invalid transaction"
    ELSE IF get_balance(bal, tx.from) < tx.amount + tx.fee THEN "Insufficient balance"
    ELSE IF position(mp, tx.id) = 0 THEN "Original transaction not found in mempool"
    ELSE IF FeeNotHigher(tx, mp[position(mp, tx.id)])
         THEN "New transaction must have a higher fee for RBF"
    ELSE "Ok"

\* self.mempool.remove(index)
RemoveAt(mp, i) == SubSeq(mp, 1, i - 1) \o SubSeq(mp, i + 1, Len(mp))

\* get_transactions_from_mempool without the retain
RetainUnexpired_Omitted(mp, t) == mp

\* self.mempool.retain(|tx| tx.expiration > current_time)
RetainUnexpired(mp, t) == SelectSeq(mp, LAMBDA tx : tx.expiration > t)

\* the filter of clean_expired_transactions
ExpiredOf(mp, t) == SelectSeq(mp, LAMBDA tx : tx.expiration < t)

\* the loop of clean_expired_transactions over the expired entries
RECURSIVE CleanLoop(_, _, _)
CleanLoop(expired, mp, bytes) ==
    IF expired = <<>> THEN [mempool |-> mp, bytes |-> bytes]
    ELSE CleanLoop(Tail(expired),
                   SelectSeq(mp, LAMBDA t : t.id # Head(expired).id),
                   bytes - calculate_transaction_size(Head(expired)))

\* ------------------------------------------------------------- Merkle tree
\* MerkleTree::hash_pair: SHA-256 of left ++ right.  Leaf hashes begin with
\* an id >= 1 and have five entries, so the term is uniquely decodable.
hash_pair(left, right) == <<0>> \o left \o right

\* hash < *sibling on Vec<u8>: lexicographic order
RECURSIVE HashLess(_, _)
HashLess(a, b) ==
    IF b = <<>> THEN FALSE
    ELSE IF a = <<>> THEN TRUE
    ELSE IF Head(a) # Head(b) THEN Head(a) < Head(b)
    ELSE HashLess(Tail(a), Tail(b))

\* MerkleTree::pair_and_hash: chunks(2), a lone last node paired with itself
pair_and_hash(nodes) ==
    [i \in 1..((Len(nodes) + 1) \div 2) |->
        LET left == nodes[2 * i - 1]
            right == IF 2 * i <= Len(nodes) THEN nodes[2 * i] ELSE left
        IN  hash_pair(left, right)]

\* while nodes.len() > 1 { nodes = pair_and_hash(nodes) }
RECURSIVE Collapse(_)
Collapse(nodes) == IF Len(nodes) > 1 THEN Collapse(pair_and_hash(nodes)) ELSE nodes

\* MerkleTree::new: `nodes` keeps what the loop leaves, the last level only
MerkleTree_new(transactions) ==
    LET leaves == [i \in 1..Len(transactions) |-> calculate_hash(transactions[i])]
        padded == IF Len(leaves) % 2 # 0 THEN Append(leaves, leaves[Len(leaves)])
                  ELSE leaves
        nodes == Collapse(padded)
    IN  [root |-> IF nodes = <<>> THEN <<>> ELSE nodes[1], nodes |-> nodes]

NoTree == [root |-> <<>>, nodes |-> <<>>]
NoProof == [some |-> FALSE, path |-> <<>>]

\* the while loop of get_proof; index and sibling_index count from 0
RECURSIVE ProofLoop(_, _, _, _)
ProofLoop(nodes, index, level_size, proof) ==
    IF level_size > 0
    THEN LET sibling_index == IF index % 2 = 0 THEN index + 1 ELSE index - 1
         IN  ProofLoop(nodes, index \div 2, level_size \div 2,
                       IF sibling_index < Len(nodes)
                       THEN Append(proof, nodes[sibling_index + 1]) ELSE proof)
    ELSE proof

\* MerkleTree::get_proof
get_proof(tree, transaction) ==
    LET tx_hash == calculate_hash(transaction)
        hits == { i \in 1..Len(tree.nodes) : tree.nodes[i] = tx_hash }
    IN  IF hits = {} THEN NoProof
        ELSE LET first == CHOOSE i \in hits : \A j \in hits : i <= j
             IN  [some |-> TRUE,
                  path |-> ProofLoop(tree.nodes, first - 1,
                                     Len(tree.nodes) \div 2, <<>>)]

\* the for loop of verify_proof
RECURSIVE VerifyLoop(_, _)
VerifyLoop(hash, proof) ==
    IF proof = <<>> THEN hash
    ELSE VerifyLoop(IF HashLess(hash, Head(proof))
                    THEN hash_pair(hash, Head(proof))
                    ELSE hash_pair(Head(proof), hash),
                    Tail(proof))

\* MerkleTree::verify_proof
verify_proof(root, transaction, proof) ==
    VerifyLoop(calculate_hash(transaction), proof) = root

\* The transactions Merkle trees are built over, and the proofs a caller
\* can hand to verify_proof besides the one get_proof returned.
MerkleTxs ==
    { sign(Tx(id, "A", "C", 3000, 1000, 1), "A") : id \in Ids }

RECURSIVE SeqsUpTo(_, _)
SeqsUpTo(S, n) ==
    IF n = 0 THEN {<<>>}
    ELSE LET shorter == SeqsUpTo(S, n - 1)
         IN  shorter \cup { Append(q, x) : q \in shorter, x \in S }

ProofInputs == SeqsUpTo({ calculate_hash(t) : t \in MerkleTxs }, 2)

\* ------------------------------------------------------------------ blocks
\* A block hash is the number its leading HashBits bits spell, the value
\* u128::from_str_radix(&hash[..32], 16) of the source.  String::from("0"),
\* the previous_hash of the genesis block, is no digest:
PreviousHashZero == -1

\* what the merkle_root string adds to the digest of a block
RECURSIVE RootCode(_)
RootCode(root) ==
    IF root = <<>> THEN 0 ELSE (Head(root) + 3 * RootCode(Tail(root))) % (2 ^ HashBits)

\* Block::calculate_hash: index, timestamp, merkle_root, previous_hash, nonce
\* and difficulty are hashed; an odd multiple of the nonce lets the search
\* meet every value, as it meets every target with SHA-256
Block_calculate_hash(b) ==
    (7 * b.index + 3 * b.timestamp + RootCode(b.merkle_root)
       + 9 * (b.previous_hash + 1) + 5 * b.nonce + 11 * b.difficulty) % (2 ^ HashBits)

\* Block::new at wall-clock time t
Block_new(index, transactions, previous_hash, block_difficulty, t) ==
    LET b == [index |-> index, timestamp |-> t, transactions |-> transactions,
              previous_hash |-> previous_hash, hash |-> 0, nonce |-> 0,
              difficulty |-> block_difficulty,
              merkle_root |-> MerkleTree_new(transactions).root]
    IN  [b EXCEPT !.hash = Block_calculate_hash(b)]

NoBlock == Block_new(0, <<>>, PreviousHashZero, 0, 0)
NoMined == [block |-> NoBlock, difficulty |-> 0]

\* target = (1u128 << (128 - difficulty)) - 1, for 1 <= difficulty <= HashBits
Target(d) == 2 ^ (HashBits - d) - 1

\* one turn of the loop of mine_block: self.nonce += 1, then the hash again
hash_attempt(b) ==
    LET c == [b EXCEPT !.nonce = @ + 1]
    IN  [c EXCEPT !.hash = Block_calculate_hash(c)]

\* the condition of the loop of mine_block
above_target(b, d) == b.hash > Target(d)

\* mine_block giving up after one turn of its loop
mine_block_Once(b, d) == IF above_target(b, d) THEN hash_attempt(b) ELSE b

\* Block::mine_block(difficulty): loops until the stored hash meets the target
RECURSIVE mine_block(_, _)
mine_block(b, d) == IF above_target(b, d) THEN mine_block(hash_attempt(b), d) ELSE b

\* Block::has_valid_transactions
has_valid_transactions(b) ==
    \A i \in 1..Len(b.transactions) : is_valid(b.transactions[i]) = "true"

\* new_block.transactions.iter().map(|tx| tx.amount).sum()
RECURSIVE total_value(_)
total_value(txs) == IF txs = <<>> THEN 0 ELSE Head(txs).amount + total_value(Tail(txs))

\* the size tests of is_valid_new_block left out
WithinBlockLimits_Omitted(txs) == TRUE

\* is_valid_new_block: at most 1000 transactions, at most 1,000,000 in total
WithinBlockLimits(txs) ==
    /\ ~(Len(txs) > BlockTxLimit)
    /\ ~(total_value(txs) > BlockValueLimit)

\* Blockchain::is_valid_new_block, d being self.difficulty
is_valid_new_block(new_block, previous_block, d) ==
    /\ new_block.index = previous_block.index + 1
    /\ new_block.previous_hash = previous_block.hash
    /\ Block_calculate_hash(new_block) = new_block.hash
    /\ has_valid_transactions(new_block)
    /\ MerkleTree_new(new_block.transactions).root = new_block.merkle_root
    /\ ~(new_block.timestamp <= previous_block.timestamp)
    /\ WithinBlockLimits(new_block.transactions)
    /\ new_block.hash <= Target(d)

\* Blockchain::validate_chain, d being self.difficulty
validate_chain(ch, d) ==
    \A i \in 2..Len(ch) :
        /\ is_valid_new_block(ch[i], ch[i - 1], d)
        /\ \A k \in 1..Len(ch[i].transactions) :
              is_valid(ch[i].transactions[k]) = "true"

\* Blockchain::is_chain_valid, d being self.difficulty
is_chain_valid(ch, d) ==
    \A i \in 2..Len(ch) : is_valid_new_block(ch[i], ch[i - 1], d)

\* the inner loop of update_balances and of recalculate_balances
RECURSIVE ApplyTransactions(_, _)
ApplyTransactions(bal, txs) ==
    IF txs = <<>> THEN bal
    ELSE LET tx == Head(txs)
             debited == [bal EXCEPT ![tx.from] = @ - tx.amount]
         IN  ApplyTransactions([debited EXCEPT ![tx.to] = @ + tx.amount], Tail(txs))

RECURSIVE ApplyBlocks(_, _)
ApplyBlocks(bal, blocks) ==
    IF blocks = <<>> THEN bal
    ELSE ApplyBlocks(ApplyTransactions(bal, Head(blocks).transactions), Tail(blocks))

\* update_balances starting from cleared balances
update_balances_Cleared(bal, ch) == ApplyBlocks([a \in Addrs |-> 0], ch)

\* Blockchain::update_balances: `for block in &self.chain`, every block
update_balances(bal, ch) == ApplyBlocks(bal, ch)


\* Duration::num_seconds of a span of ticks that is not negative
num_seconds(ticks) == ticks \div TicksPerSecond

\* the factor clamped to [0.25, 1.75]
adjustment_factor_Wide(actual_s, expected_s) ==
    IF expected_s = 0 THEN (IF actual_s = 0 THEN <<1, 4>> ELSE <<7, 4>>)
    ELSE IF 4 * actual_s < 1 * expected_s THEN <<1, 4>>
    ELSE IF 4 * actual_s > 7 * expected_s THEN <<7, 4>>
    ELSE <<actual_s, expected_s>>

\* time_ratio.max(0.75).min(1.25) as a fraction <<p, q>> = p / q.  A division
\* by zero seconds gives NaN (0 / 0), which max(0.75) turns into 0.75, or
\* infinity, which min(1.25) turns into 1.25.
adjustment_factor(actual_s, expected_s) ==
    IF expected_s = 0 THEN (IF actual_s = 0 THEN <<3, 4>> ELSE <<5, 4>>)
    ELSE IF 4 * actual_s < 3 * expected_s THEN <<3, 4>>
    ELSE IF 4 * actual_s > 5 * expected_s THEN <<5, 4>>
    ELSE <<actual_s, expected_s>>

\* ((d + (d / factor).max(1.0)) / 2.0).round() as u32, in exact arithmetic;
\* round() rounds a half away from zero
smoothed(d, f) ==
    IF d * f[2] < f[1] THEN (d + 2) \div 2
    ELSE (d * (f[1] + f[2]) + f[1]) \div (2 * f[1])

\* Blockchain::adjust_difficulty: the new value of self.difficulty
adjust_difficulty(ch, d, interval, block_time) ==
    IF Len(ch) < interval THEN d
    ELSE LET last_adjusted_block == ch[Len(ch) - interval + 1]
             expected_time == block_time * interval
             actual_time == ch[Len(ch)].timestamp - last_adjusted_block.timestamp
         IN  smoothed(d, adjustment_factor(num_seconds(actual_time),
                                           num_seconds(expected_time)))

\* Transaction::new("Blockchain", miner_address, self.mining_reward, 0.0) at
\* time t; the uuid is one no other transaction has
RewardId(index) == 100 + index
reward_transaction(index, miner_address, reward, t) ==
    [id |-> RewardId(index), from |-> "Blockchain", to |-> miner_address,
     amount |-> reward, fee |-> 0, timestamp |-> t, expiration |-> t + 3600,
     signature |-> NoSig]

\* lines 95-96 with the reward transaction put in front
all_transactions_RewardFirst(transactions, reward_tx) == <<reward_tx>> \o transactions

\* lines 95-96: all_transactions = transactions; all_transactions.push(reward)
all_transactions(transactions, reward_tx) == Append(transactions, reward_tx)

\* recalculate_balances without the clear
recalculate_balances_Kept(ch) == ApplyBlocks(balances, ch)

\* Blockchain::recalculate_balances: clear, then every block
recalculate_balances(ch) == ApplyBlocks([a \in Addrs |-> 0], ch)

\* ----------------------------------------------------------------- initial
\* Block::new(0, Vec::new(), "0", difficulty), pushed by create_genesis_block
GenesisBlock(d) == Block_new(0, <<>>, PreviousHashZero, d, 0)

Workers == 1..NumWorkers

\* no search is under way
InitSearch ==
    /\ mined = NoMined
    /\ mineable_block = NoBlock
    /\ found = FALSE
    /\ found_lock = 0
    /\ w_pc = [w \in Workers |-> "idle"]
    /\ local_block = [w \in Workers |-> NoBlock]
    /\ winner = 0
    /\ slot_writes = 0
    /\ late_attempts = [w \in Workers |-> 0]

NoFunds == [a \in Addrs |-> 0]

\* Blockchain::new(d, reward, block_time), the fields interval and ceiling
\* being as the caller leaves them, and the balances as the caller's
\* add_balance calls leave them
InitLedger(d, reward, block_time, interval, ceiling, funds) ==
    /\ chain = <<GenesisBlock(d)>>
    /\ balances = funds
    /\ mempool = <<>>
    /\ mempool_size_bytes = 0
    /\ pending_transactions = <<>>
    /\ difficulty = d
    /\ mining_reward = reward
    /\ target_block_time = block_time
    /\ difficulty_adjustment_interval = interval
    /\ max_mempool_size_bytes = ceiling
    /\ now = 0
    /\ clock = 1
    /\ last_op = "new"
    /\ last_tx = NoTx
    /\ result = "Ok"
    /\ taken = <<>>
    /\ removed = <<>>
    /\ replays = 0

\* Blockchain::new(4, 10.0, Duration::seconds(10)) as in main.rs, with the
\* byte ceiling lowered to MaxMempoolSizeBytes
InitPool ==
    /\ InitLedger(4, 10 * Coin, 10 * TicksPerSecond, 10, MaxMempoolSizeBytes,
                  NoFunds)
    /\ InitSearch

InitTree ==
    /\ mt_tree = NoTree
    /\ mt_tx = NoTx
    /\ mt_proof = NoProof
    /\ mt_arg = <<>>
    /\ mt_verified = FALSE

Init ==
    /\ InitPool
    /\ InitTree
    /\ mt_txs = <<>>
    /\ mt_pc = "idle"

\* A panic unwinds the caller: no further call is made.
Running == result # "Panic"

\* ----------------------------------------------------------------- actions
\* Blockchain::add_balance
AddBalance(address, amount) ==
    /\ Running
    /\ balances[address] + amount <= MaxBalance
    /\ balances' = [balances EXCEPT ![address] = @ + amount]
    /\ last_op' = "add_balance"
    /\ last_tx' = NoTx
    /\ result' = "Ok"
    /\ taken' = <<>>
    /\ removed' = <<>>
    /\ UNCHANGED <<chain, mempool, mempool_size_bytes, now>>
    /\ mined' = NoMined
    /\ replays' = 0
    /\ UNCHANGED <<merkle, fields, clock, search>>

\* the clock advances between calls
Tick ==
    /\ Running
    /\ now < MaxTime
    /\ now' = now + 1
    /\ last_op' = "tick"
    /\ last_tx' = NoTx
    /\ result' = "Ok"
    /\ taken' = <<>>
    /\ removed' = <<>>
    /\ clock' = clock + TicksPerSecond
    /\ UNCHANGED ledger
    /\ mined' = NoMined
    /\ replays' = 0
    /\ UNCHANGED <<merkle, fields, search>>

\* Blockchain::add_to_mempool
AddToMempool(tx) ==
    /\ Running
    /\ mempool_size_bytes + calculate_transaction_size(tx)
          <= MaxTrackedBytes + (max_mempool_size_bytes - MaxMempoolSizeBytes)
    /\ LET r == AddResult(mempool, balances, now, tx)
           tx_size == calculate_transaction_size(tx)
           ev == IF mempool_size_bytes + tx_size > max_mempool_size_bytes
                 THEN evict_transactions(mempool, mempool_size_bytes, tx_size)
                 ELSE [mempool |-> mempool, bytes |-> mempool_size_bytes,
                       evicted |-> <<>>]
       IN  /\ result' = r
           /\ IF r = "Ok"
              THEN /\ mempool' = sort_mempool(Append(ev.mempool, tx))
                   /\ mempool_size_bytes' = ev.bytes + tx_size
                   /\ removed' = ev.evicted
              ELSE /\ UNCHANGED <<mempool, mempool_size_bytes>>
                   /\ removed' = <<>>
    /\ last_op' = "add"
    /\ last_tx' = tx
    /\ taken' = <<>>
    /\ UNCHANGED <<chain, balances, now>>
    /\ mined' = NoMined
    /\ replays' = 0
    /\ UNCHANGED <<merkle, fields, clock, search>>

\* Blockchain::replace_transaction
ReplaceTransaction(tx) ==
    /\ Running
    /\ LET r == ReplaceResult(mempool, balances, tx)
           index == position(mempool, tx.id)
       IN  /\ result' = r
           /\ IF r = "Ok"
              THEN /\ mempool' = sort_mempool(Append(RemoveAt(mempool, index), tx))
                   /\ mempool_size_bytes' =
                        (mempool_size_bytes - calculate_transaction_size(mempool[index]))
                           + calculate_transaction_size(tx)
                   /\ removed' = <<mempool[index]>>
              ELSE /\ UNCHANGED <<mempool, mempool_size_bytes>>
                   /\ removed' = <<>>
    /\ last_op' = "replace"
    /\ last_tx' = tx
    /\ taken' = <<>>
    /\ UNCHANGED <<chain, balances, now>>
    /\ mined' = NoMined
    /\ replays' = 0
    /\ UNCHANGED <<merkle, fields, clock, search>>

\* Blockchain::get_transactions_from_mempool
GetTransactionsFromMempool(max_transactions) ==
    /\ Running
    /\ LET kept == RetainUnexpired(mempool, now)
           n == Min(max_transactions, Len(kept))
       IN  /\ taken' = SubSeq(kept, 1, n)
           /\ mempool' = SubSeq(kept, n + 1, Len(kept))
           /\ removed' = SelectSeq(mempool, LAMBDA tx : ~(tx.expiration > now))
    /\ last_op' = "get"
    /\ last_tx' = NoTx
    /\ result' = "Ok"
    /\ UNCHANGED <<chain, balances, mempool_size_bytes, now>>
    /\ mined' = NoMined
    /\ replays' = 0
    /\ UNCHANGED <<merkle, fields, clock, search>>

\* Blockchain::clean_expired_transactions
CleanExpiredTransactions ==
    /\ Running
    /\ LET expired == ExpiredOf(mempool, now)
           c == CleanLoop(expired, mempool, mempool_size_bytes)
       IN  /\ mempool' = sort_mempool(c.mempool)
           /\ mempool_size_bytes' = c.bytes
           /\ removed' = expired
    /\ last_op' = "clean"
    /\ last_tx' = NoTx
    /\ result' = "Ok"
    /\ taken' = <<>>
    /\ UNCHANGED <<chain, balances, now>>
    /\ mined' = NoMined
    /\ replays' = 0
    /\ UNCHANGED <<merkle, fields, clock, search>>

Next ==
    \/ \E a \in Senders : AddBalance(a, MaxBalance)
    \/ Tick
    \/ \E tx \in TxInputs : AddToMempool(tx)
    \/ \E tx \in TxInputs : ReplaceTransaction(tx)
    \/ \E m \in {1, MaxTake} : GetTransactionsFromMempool(m)
    \/ CleanExpiredTransactions

Spec == Init /\ [][Next]_vars

\* ------------------------------------------------- Merkle tree, as a machine
InitMerkle ==
    /\ InitPool
    /\ InitTree
    /\ mt_txs \in SeqsUpTo(MerkleTxs, MaxTxs)
    /\ mt_pc = "input"

\* MerkleTree::new(&transactions)
MerkleNew ==
    /\ mt_pc = "input"
    /\ mt_tree' = MerkleTree_new(mt_txs)
    /\ mt_pc' = "built"
    /\ UNCHANGED <<mt_txs, mt_tx, mt_proof, mt_arg, mt_verified>>
    /\ UNCHANGED pool

\* tree.get_proof(&tx) for a transaction of the list
GetProof(tx) ==
    /\ mt_pc = "built"
    /\ mt_tx' = tx
    /\ mt_proof' = get_proof(mt_tree, tx)
    /\ mt_pc' = "proved"
    /\ UNCHANGED <<mt_txs, mt_tree, mt_arg, mt_verified>>
    /\ UNCHANGED pool

\* MerkleTree::verify_proof(&root, &tx, &proof)
VerifyProof(proof) ==
    /\ mt_pc = "proved"
    /\ mt_arg' = proof
    /\ mt_verified' = verify_proof(mt_tree.root, mt_tx, proof)
    /\ mt_pc' = "verified"
    /\ UNCHANGED <<mt_txs, mt_tree, mt_tx, mt_proof>>
    /\ UNCHANGED pool

NextMerkle ==
    \/ MerkleNew
    \/ \E tx \in Range(mt_txs) : GetProof(tx)
    \/ \E p \in ProofInputs \cup (IF mt_proof.some THEN {mt_proof.path} ELSE {}) :
          VerifyProof(p)

SpecMerkle == InitMerkle /\ [][NextMerkle]_vars

\* ------------------------------------------------- the chain, as a machine
\* main.rs: tx1, tx2 and tx3 are the transfers of lines 33-43 (alice "A",
\* bob "B", charlie "C"); tx_refund and tx_large are two more transfers,
\* with higher fees.  Transaction::new sets expiration = now + 3600.
tx1 == sign(Tx(1, "A", "B", 30 * Coin, Coin \div 10, 3600), "A")
tx2 == sign(Tx(2, "B", "C", 15 * Coin, Coin \div 10, 3600), "B")
tx3 == sign(Tx(3, "A", "C", 20 * Coin, Coin \div 10, 3600), "A")
tx_refund == sign(Tx(4, "B", "A", 10 * Coin, Coin \div 5, 3600), "B")
tx_large == sign(Tx(5, "A", "C", 90 * Coin, 3 * (Coin \div 10), 3600), "A")
ChainTxs == {tx1, tx2, tx3, tx_refund, tx_large}
\* bob mines the first block of main.rs, charlie the second
Miners == {"B", "C"}

\* add_balance(alice, 100.0), add_balance(bob, 50.0) of main.rs
MainFunds == [a \in Addrs |-> CASE a = "A" -> 100 * Coin
                                [] a = "B" -> 50 * Coin
                                [] OTHER -> 0]

\* mine_pending_transactions, lines 79-103: the transactions taken, the
\* reward transaction after them, and the block built over them at time t
Candidate(miner_address, t) ==
    LET kept == RetainUnexpired(mempool, t \div TicksPerSecond)
        n == Min(MaxTake, Len(kept))
        from_mempool == SubSeq(kept, 1, n)
        transactions == IF from_mempool = <<>> THEN pending_transactions
                        ELSE from_mempool
        reward_tx == reward_transaction(Len(chain), miner_address, mining_reward,
                                        t \div TicksPerSecond)
    IN  [block |-> Block_new(Len(chain), all_transactions(transactions, reward_tx),
                             chain[Len(chain)].hash, difficulty, t),
         mempool |-> SubSeq(kept, n + 1, Len(kept)),
         pending |-> IF from_mempool = <<>> THEN <<>> ELSE pending_transactions,
         taken |-> from_mempool,
         expired |-> SelectSeq(mempool,
                               LAMBDA tx : ~(tx.expiration > t \div TicksPerSecond))]

\* mine_pending_transactions, lines 138-147: the mined block is validated
\* against the latest block, appended, and the balances and the difficulty
\* are brought up to date; or it is dropped
AcceptBlock(mined_block) ==
    IF is_valid_new_block(mined_block, chain[Len(chain)], difficulty)
    THEN /\ chain' = Append(chain, mined_block)
         /\ balances' = update_balances(balances, Append(chain, mined_block))
         /\ difficulty' = adjust_difficulty(Append(chain, mined_block), difficulty,
                                            difficulty_adjustment_interval,
                                            target_block_time)
         /\ result' = "Ok"
    ELSE /\ UNCHANGED <<chain, balances, difficulty>>
         /\ result' = "Invalid block"

\* Blockchain::mine_pending_transactions.  Every worker starts from the same
\* block and nonce, so the block the search returns is the one mine_block
\* finds.  Block::new reads the clock, and time passes before the call
\* returns.
MinePendingTransactions(miner_address) ==
    /\ Running
    /\ Len(chain) < MaxChainLen
    /\ clock < MaxClock
    /\ difficulty \in 1..HashBits
    /\ LET c == Candidate(miner_address, clock)
           mined_block == mine_block(c.block, difficulty)
       IN  /\ mempool' = c.mempool
           /\ pending_transactions' = c.pending
           /\ taken' = c.taken
           /\ removed' = c.expired
           /\ mined' = [block |-> mined_block, difficulty |-> difficulty]
           /\ AcceptBlock(mined'.block)
    /\ clock' = clock + 1
    /\ now' = (clock + 1) \div TicksPerSecond
    /\ last_op' = "mine"
    /\ last_tx' = NoTx
    /\ replays' = 0
    /\ UNCHANGED <<mempool_size_bytes, max_mempool_size_bytes,
                   difficulty_adjustment_interval, mining_reward,
                   target_block_time>>
    /\ UNCHANGED <<merkle, search>>

\* the ledger of main.rs: Blockchain::new(4, 10.0, Duration::seconds(10)),
\* alice and bob funded
InitChain ==
    /\ InitLedger(4, 10 * Coin, 10 * TicksPerSecond, 10, 5000000, MainFunds)
    /\ InitSearch
    /\ InitTree
    /\ mt_txs = <<>>
    /\ mt_pc = "idle"

\* main.rs unwraps the result of mine_pending_transactions: an Err ends the
\* run
Unwrapped == result # "Invalid block"

NextChain ==
    \/ \E tx \in ChainTxs :
          Unwrapped /\ Len(chain) < MaxChainLen /\ AddToMempool(tx)
    \/ \E m \in Miners : Unwrapped /\ MinePendingTransactions(m)

SpecChain == InitChain /\ [][NextChain]_vars

\* --------------------------------- the legacy buffer, as a machine
\* The checks of add_transaction, in the order of the code.
AddTransactionResult(bal, tx) ==
    LET v == is_valid(tx) IN
    IF v = "panic" THEN "Panic"
    ELSE IF v = "false" THEN "Invalid transaction"
    ELSE IF get_balance(bal, tx.from) < tx.amount THEN "Insufficient balance"
    ELSE "Ok"

\* Blockchain::add_transaction
AddTransaction(tx) ==
    /\ Running
    /\ Len(pending_transactions) < MaxPending
    /\ LET r == AddTransactionResult(balances, tx)
       IN  /\ result' = r
           /\ pending_transactions' = IF r = "Ok"
                                      THEN Append(pending_transactions, tx)
                                      ELSE pending_transactions
    /\ last_op' = "add_transaction"
    /\ last_tx' = tx
    /\ taken' = <<>>
    /\ removed' = <<>>
    /\ mined' = NoMined
    /\ replays' = 0
    /\ UNCHANGED <<chain, balances, mempool, mempool_size_bytes, now, clock,
                   max_mempool_size_bytes, difficulty_adjustment_interval,
                   mining_reward, target_block_time, difficulty>>
    /\ UNCHANGED <<merkle, search>>

\* Blockchain::recalculate_balances
RecalculateBalances ==
    /\ Running
    /\ balances' = recalculate_balances(chain)
    /\ last_op' = "recalculate"
    /\ last_tx' = NoTx
    /\ result' = "Ok"
    /\ taken' = <<>>
    /\ removed' = <<>>
    /\ mined' = NoMined
    /\ replays' = Min(2, replays + 1)
    /\ UNCHANGED <<chain, mempool, mempool_size_bytes, now, clock>>
    /\ UNCHANGED <<merkle, fields, search>>

\* The ledger of main.rs with a caller that also uses the buffer of
\* add_transaction: tx1 and tx2 go to the buffer, tx3 and a transfer of bob
\* that expires after one second go to the mempool, charlie mines, and the
\* balances are replayed.
tx_brief == sign(Tx(7, "B", "A", 5 * Coin, Coin \div 10, 1), "B")
LegacyTxs == {tx1, tx2}
LegacyPoolTxs == {tx3, tx_brief}
LegacyMiners == {"C"}

NextLegacy ==
    \/ \E tx \in LegacyTxs :
          Unwrapped /\ Len(chain) < MaxChainLen /\ AddTransaction(tx)
    \/ \E tx \in LegacyPoolTxs :
          Unwrapped /\ Len(chain) < MaxChainLen /\ AddToMempool(tx)
    \/ \E m \in LegacyMiners : Unwrapped /\ MinePendingTransactions(m)
    \/ Unwrapped /\ RecalculateBalances

SpecLegacy == InitChain /\ [][NextLegacy]_vars

\* ------------------------------------ pending spending, as a machine
\* The ledger of main.rs before a block is mined: add_to_mempool is called
\* with the transfers of main.rs and with two more, one of them alice's
\* transfer of half of her funds.
tx_half == sign(Tx(6, "A", "B", 50 * Coin, Coin \div 10, 3600), "A")
SpendTxs == {tx1, tx2, tx3, tx_refund, tx_half}

NextSpend == \E tx \in SpendTxs : AddToMempool(tx)

SpecSpend == InitChain /\ [][NextSpend]_vars

\* ---------------------------------------- the difficulty, as a machine
\* target_block_time of the ledgers whose difficulty is adjusted: 2.5 s
TargetBlockTicks == 5

\* time passes between two calls
Elapse ==
    /\ Running
    /\ clock < MaxClock
    /\ clock' = clock + 1
    /\ now' = (clock + 1) \div TicksPerSecond
    /\ last_op' = "elapse"
    /\ last_tx' = NoTx
    /\ result' = "Ok"
    /\ taken' = <<>>
    /\ removed' = <<>>
    /\ mined' = NoMined
    /\ replays' = 0
    /\ UNCHANGED ledger
    /\ UNCHANGED <<merkle, fields, search>>

\* Blockchain::new(d, 10.0, 2.5 s) for every difficulty that can be mined,
\* the adjustment interval shortened to AdjustmentInterval blocks
InitDifficulty ==
    /\ \E d \in 1..HashBits :
          InitLedger(d, 10 * Coin, TargetBlockTicks, AdjustmentInterval, 5000000,
                     NoFunds)
    /\ InitSearch
    /\ InitTree
    /\ mt_txs = <<>>
    /\ mt_pc = "idle"

NextDifficulty ==
    \/ Elapse
    \/ MinePendingTransactions("B")

SpecDifficulty == InitDifficulty /\ [][NextDifficulty]_vars

\* ------------------------------------- the parallel search, as a machine
\* mine_pending_transactions, lines 79-113: the candidate block is built and
\* put in the shared slot, the flag is cleared, the workers are spawned
MineStart(miner_address) ==
    /\ Running
    /\ \A w \in Workers : w_pc[w] = "idle"
    /\ Len(chain) < MaxChainLen
    /\ clock < MaxClock
    /\ difficulty \in 1..HashBits
    /\ LET c == Candidate(miner_address, clock)
       IN  /\ mempool' = c.mempool
           /\ pending_transactions' = c.pending
           /\ taken' = c.taken
           /\ removed' = c.expired
           /\ mineable_block' = c.block
    /\ found' = FALSE
    /\ found_lock' = 0
    /\ w_pc' = [w \in Workers |-> "clone"]
    /\ local_block' = [w \in Workers |-> NoBlock]
    /\ winner' = 0
    /\ slot_writes' = 0
    /\ late_attempts' = [w \in Workers |-> 0]
    /\ mined' = NoMined
    /\ replays' = 0
    /\ clock' = clock + 1
    /\ now' = (clock + 1) \div TicksPerSecond
    /\ last_op' = "search"
    /\ last_tx' = NoTx
    /\ result' = "Pending"
    /\ UNCHANGED <<chain, balances, mempool_size_bytes, difficulty,
                   max_mempool_size_bytes, difficulty_adjustment_interval,
                   mining_reward, target_block_time>>
    /\ UNCHANGED merkle

\* what a worker step leaves alone
WorkerFrame ==
    /\ UNCHANGED <<chain, balances, mempool, mempool_size_bytes, now,
                   last_op, last_tx, result, taken, removed, fields, clock, mined,
                   replays>>
    /\ UNCHANGED merkle

\* line 116 with every worker starting from a nonce of its own
Clone_OwnNonce(w) ==
    /\ w_pc[w] = "clone"
    /\ local_block' =
          [local_block EXCEPT
              ![w] = LET c == [mineable_block EXCEPT !.nonce = @ + (w - 1)]
                     IN  [c EXCEPT !.hash = Block_calculate_hash(c)]]
    /\ w_pc' = [w_pc EXCEPT ![w] = "check"]
    /\ UNCHANGED <<mineable_block, found, found_lock, winner, slot_writes,
                   late_attempts>>
    /\ WorkerFrame

\* line 116: let mut local_block = block.lock().unwrap().clone()
Clone(w) ==
    /\ w_pc[w] = "clone"
    /\ local_block' = [local_block EXCEPT ![w] = mineable_block]
    /\ w_pc' = [w_pc EXCEPT ![w] = "check"]
    /\ UNCHANGED <<mineable_block, found, found_lock, winner, slot_writes,
                   late_attempts>>
    /\ WorkerFrame

\* line 117: while !*found.lock().unwrap()
CheckFound(w) ==
    /\ w_pc[w] = "check"
    /\ found_lock = 0
    /\ w_pc' = [w_pc EXCEPT ![w] = IF found THEN "done" ELSE "mine"]
    /\ UNCHANGED <<mineable_block, found, found_lock, local_block, winner,
                   slot_writes, late_attempts>>
    /\ WorkerFrame

\* line 118: local_block.mine_block(difficulty), one turn of its loop at a
\* time (block.rs:63-65).  The loop reads no shared state.  mine_block
\* returns () when the hash meets the target; the `if` of line 118 is taken
\* then.
MineBlockTurn(w) ==
    /\ w_pc[w] = "mine"
    /\ IF above_target(local_block[w], difficulty)
       THEN /\ local_block' = [local_block EXCEPT ![w] = hash_attempt(@)]
            /\ late_attempts' = [late_attempts EXCEPT
                                    ![w] = IF found THEN Min(2, @ + 1) ELSE @]
            /\ UNCHANGED w_pc
       ELSE /\ w_pc' = [w_pc EXCEPT ![w] = "lock"]
            /\ UNCHANGED <<local_block, late_attempts>>
    /\ UNCHANGED <<mineable_block, found, found_lock, winner, slot_writes>>
    /\ WorkerFrame

\* the test of line 120 left out
unset_Ignored(flag) == TRUE

\* line 120: if !*found_lock
unset(flag) == ~flag

\* lines 119-121 and 125: the mutex of `found` is taken; if the flag is not
\* set it is set, and the mutex is kept for the write; otherwise break
LockFound(w) ==
    /\ w_pc[w] = "lock"
    /\ found_lock = 0
    /\ IF unset(found)
       THEN /\ found' = TRUE
            /\ found_lock' = w
            /\ winner' = IF found THEN winner ELSE w
            /\ w_pc' = [w_pc EXCEPT ![w] = "write"]
       ELSE /\ w_pc' = [w_pc EXCEPT ![w] = "done"]
            /\ UNCHANGED <<found, found_lock, winner>>
    /\ UNCHANGED <<mineable_block, local_block, slot_writes, late_attempts>>
    /\ WorkerFrame

\* lines 122-125: *block_lock = local_block; break (both mutexes released)
WriteBlock(w) ==
    /\ w_pc[w] = "write"
    /\ mineable_block' = local_block[w]
    /\ slot_writes' = slot_writes + 1
    /\ found_lock' = 0
    /\ w_pc' = [w_pc EXCEPT ![w] = "done"]
    /\ UNCHANGED <<found, local_block, winner, late_attempts>>
    /\ WorkerFrame

\* lines 132-147: every thread is joined, the slot is read and validated
MineJoin ==
    /\ \A w \in Workers : w_pc[w] = "done"
    /\ mined' = [block |-> mineable_block, difficulty |-> difficulty]
    /\ AcceptBlock(mineable_block)
    /\ w_pc' = [w \in Workers |-> "idle"]
    /\ last_op' = "mine"
    /\ replays' = 0
    /\ UNCHANGED <<mempool, mempool_size_bytes, now, last_tx, taken, removed,
                   max_mempool_size_bytes, difficulty_adjustment_interval,
                   mining_reward, target_block_time, pending_transactions, clock>>
    /\ UNCHANGED <<mineable_block, found, found_lock, local_block, winner,
                   slot_writes, late_attempts>>
    /\ UNCHANGED merkle

\* Block::mine_block(d) called again on the block mined last: the search
\* goes on from the nonce the block has
MineBlock(d) ==
    /\ Running
    /\ \A w \in Workers : w_pc[w] = "idle"
    /\ last_op = "mine"
    /\ mined' = [block |-> mine_block(mined.block, d), difficulty |-> d]
    /\ last_op' = "mine_block"
    /\ replays' = 0
    /\ UNCHANGED <<chain, balances, mempool, mempool_size_bytes, now,
                   last_tx, result, taken, removed, fields, clock>>
    /\ UNCHANGED <<merkle, search>>

\* difficulties of the ledgers whose search is followed step by step
SearchDifficulties == 1..HashBits

InitMining ==
    /\ \E d \in SearchDifficulties :
          InitLedger(d, 10 * Coin, TargetBlockTicks, AdjustmentInterval, 5000000,
                     NoFunds)
    /\ InitSearch
    /\ InitTree
    /\ mt_txs = <<>>
    /\ mt_pc = "idle"

NextMining ==
    \/ MineStart("B")
    \/ \E w \in Workers : Clone(w)
    \/ \E w \in Workers : CheckFound(w)
    \/ \E w \in Workers : MineBlockTurn(w)
    \/ \E w \in Workers : LockFound(w)
    \/ \E w \in Workers : WriteBlock(w)
    \/ MineJoin
    \/ \E d \in 1..HashBits : MineBlock(d)

SpecMining == InitMining /\ [][NextMining]_vars

\* the field types of Blockchain
TypeOK ==
    /\ mempool_size_bytes \in Nat
    /\ now \in 0..MaxTime
    /\ \A a \in Addrs : balances[a] \in 0..MaxBalance
    /\ \A i \in 1..Len(mempool) : mempool[i] \in TxInputs

\* mempool_size_bytes is a usize: the subtractions in evict_transactions,
\* replace_transaction and clean_expired_transactions take away the size of
\* an entry that is in the mempool, and never go below zero
SubtractionsSafe == mempool_size_bytes >= SizeSum(mempool)

\* ================================================================== claims
ErrDuplicate == "Transaction already in mempool"
ErrFeeNotHigher == "New transaction must have a higher fee for RBF"

\* fee_rate[i] >= fee_rate[i+1] for all adjacent entries
Sorted(mp) ==
    \A i \in 1..(Len(mp) - 1) :
        mp[i].fee * calculate_transaction_size(mp[i + 1])
            >= mp[i + 1].fee * calculate_transaction_size(mp[i])

\* the expiration of tx has passed at time t (the test add_to_mempool and
\* clean_expired_transactions apply)
Passed(tx, t) == tx.expiration < t

\* C1: for a non-empty transaction list and a transaction of it, get_proof
\* returns a proof (not None) and verify_proof(root, tx, proof) is true.
C1_ProofVerifies ==
    (mt_pc \in {"proved", "verified"} /\ mt_txs # <<>>)
        => /\ mt_proof.some
           /\ verify_proof(mt_tree.root, mt_tx, mt_proof.path)

\* C2: in every reachable state the mempool is sorted by descending fee rate.
C2_MempoolSorted == Sorted(mempool)

\* C2 witness: an admission whose transaction the sort moved from the tail,
\* where it was pushed, in front of an entry of lower fee rate.
C2_Witness ==
    /\ last_op = "add" /\ result = "Ok"
    /\ Len(mempool) = 2
    /\ mempool[1] = last_tx
    /\ RateGreater(mempool[1], mempool[2])

\* C3: the estimated byte size of the mempool, and the tracked counter
\* mempool_size_bytes, never exceed max_mempool_size_bytes.
C3_WithinCeiling ==
    /\ SizeSum(mempool) <= max_mempool_size_bytes
    /\ mempool_size_bytes <= max_mempool_size_bytes

\* The k entries at the tail of mp, in the order pop() removes them.
TailPopped(mp, k) == [i \in 1..k |-> mp[Len(mp) + 1 - i]]

\* C4: when an admission that passes the checks would push the tracked byte
\* size over the ceiling, entries are evicted from the tail of the fee-sorted
\* order until there is room, and when no eviction makes room the call
\* fails with MempoolFull and does not insert the transaction.
C4_EvictOrMempoolFull ==
    [][ (/\ last_op' = "add"
         /\ AddResult(mempool, balances, now, last_tx') = "Ok"
         /\ mempool_size_bytes + calculate_transaction_size(last_tx')
               > max_mempool_size_bytes)
        => LET size == calculate_transaction_size(last_tx')
               room == { k \in 0..Len(mempool) :
                           mempool_size_bytes - SizeSum(TailPopped(mempool, k)) + size
                              <= max_mempool_size_bytes }
           IN  IF room # {}
               THEN /\ result' = "Ok"
                    /\ \E k \in room :
                         /\ \A j \in room : k <= j
                         /\ removed' = TailPopped(mempool, k)
               ELSE /\ result' = "MempoolFull"
                    /\ mempool' = mempool
      ]_vars

\* C5: mempool_size_bytes equals the sum of the estimated sizes of the
\* transactions in the mempool after every operation.
C5_CounterIsSum == mempool_size_bytes = SizeSum(mempool)

\* C6 as stated: add_to_mempool with a (validly signed) transaction that has
\* the identifier of an entry already in the mempool returns the Duplicate
\* error, for every sender balance and every amount and fee.
C6_AlwaysDuplicateError ==
    [][ (/\ last_op' = "add"
         /\ is_valid(last_tx') = "true"
         /\ \E i \in 1..Len(mempool) : mempool[i].id = last_tx'.id)
        => result' = ErrDuplicate ]_vars

\* C6 amended: add_to_mempool with the identifier of an entry already in the
\* mempool never admits the transaction, and returns the Duplicate error
\* whenever the transaction passes the three earlier checks: it is valid,
\* the sender's balance covers amount + fee, and no pending transaction of
\* the sender trips the double-spend test.
C6_DuplicateRejected ==
    [][ (/\ last_op' = "add"
         /\ \E i \in 1..Len(mempool) : mempool[i].id = last_tx'.id)
        => LET tx == last_tx'
               cost == tx.amount + tx.fee
           IN  /\ result' # "Ok"
               /\ mempool' = mempool
               /\ (/\ is_valid(tx) = "true"
                   /\ balances[tx.from] >= cost
                   /\ \A i \in 1..Len(mempool) :
                        mempool[i].from = tx.from
                          => mempool[i].amount + mempool[i].fee
                               <= balances[tx.from] - cost)
                  => result' = ErrDuplicate
      ]_vars

\* C6 witness: a resubmission that was answered with the Duplicate error.
C6_Witness ==
    /\ last_op = "add" /\ result = ErrDuplicate
    /\ \E i \in 1..Len(mempool) : mempool[i].id = last_tx.id

\* C7: no two mempool entries share a transaction identifier.
C7_UniqueIds ==
    \A i, j \in 1..Len(mempool) : i # j => mempool[i].id # mempool[j].id

\* C7 witness: two entries are pending and the last call replaced one of them
\* by a transaction of the same identifier.
C7_Witness ==
    /\ last_op = "replace" /\ result = "Ok"
    /\ Len(mempool) = 2
    /\ removed # <<>> /\ removed[1].id = last_tx.id

\* C8: replace_transaction with a valid, balance-covered transaction whose
\* identifier matches a pending entry succeeds when its fee is strictly
\* higher than that entry's: then exactly one entry has the identifier, it
\* carries the new fee, the number of entries is unchanged and the mempool is
\* sorted; with an equal or lower fee it is rejected with FeeNotHigher.
C8_ReplaceByFee ==
    [][ (/\ last_op' = "replace"
         /\ is_valid(last_tx') = "true"
         /\ balances[last_tx'.from] >= last_tx'.amount + last_tx'.fee
         /\ \E i \in 1..Len(mempool) : mempool[i].id = last_tx'.id)
        => LET tx == last_tx'
               old == mempool[CHOOSE i \in 1..Len(mempool) : mempool[i].id = tx.id]
               same == { i \in 1..Len(mempool') : mempool'[i].id = tx.id }
           IN  IF tx.fee > old.fee
               THEN /\ result' = "Ok"
                    /\ Cardinality(same) = 1
                    /\ \A i \in same : mempool'[i] = tx
                    /\ Len(mempool') = Len(mempool)
                    /\ Sorted(mempool')
               ELSE /\ result' = ErrFeeNotHigher
                    /\ mempool' = mempool
      ]_vars

\* C8 witness: a replacement by a higher fee succeeded next to another entry.
C8_Witness ==
    /\ last_op = "replace" /\ result = "Ok"
    /\ Len(mempool) = 2
    /\ removed # <<>> /\ removed[1].fee < last_tx.fee

\* C9: a failing add_to_mempool or replace_transaction returns an error
\* value, never panics, and leaves mempool, mempool_size_bytes, balances and
\* chain as they were.
C9_FailureIsAnErrorAndNoChange ==
    [][ (last_op' \in {"add", "replace"} /\ result' # "Ok")
        => /\ result' # "Panic"
           /\ mempool' = mempool
           /\ mempool_size_bytes' = mempool_size_bytes
           /\ balances' = balances
           /\ chain' = chain
      ]_vars

\* C10: get_transactions_from_mempool returns no transaction whose
\* expiration has passed at the time of the call, and after
\* clean_expired_transactions no entry past its expiration is in the mempool
\* while every entry not past it still is.
C10_ExpiredNeverTakenAndSwept ==
    [][ /\ last_op' = "get"
          => \A i \in 1..Len(taken') : ~Passed(taken'[i], now)
        /\ last_op' = "clean"
          => /\ \A i \in 1..Len(mempool') : ~Passed(mempool'[i], now)
             /\ \A i \in 1..Len(mempool) :
                  ~Passed(mempool[i], now) => mempool[i] \in Range(mempool')
      ]_vars

\* C10 witness: a sweep that removed an expired entry and kept another one.
C10_Witness ==
    /\ last_op = "clean"
    /\ removed # <<>>
    /\ mempool # <<>>

\* C11: the chain is never empty, block 0 is the genesis block (index 0, no
\* transactions, previous_hash "0"), and every later block has the index
\* after its predecessor's, its predecessor's hash as previous_hash, a later
\* timestamp, at most 1000 transactions (BlockTxLimit here) and at most
\* 1,000,000 of summed amounts (BlockValueLimit here).
C11_ChainLinked ==
    /\ Len(chain) >= 1
    /\ chain[1].index = 0
    /\ chain[1].transactions = <<>>
    /\ chain[1].previous_hash = PreviousHashZero
    /\ \A i \in 2..Len(chain) :
          /\ chain[i].index = chain[i - 1].index + 1
          /\ chain[i].previous_hash = chain[i - 1].hash
          /\ chain[i].timestamp > chain[i - 1].timestamp
          /\ Len(chain[i].transactions) <= BlockTxLimit
          /\ total_value(chain[i].transactions) <= BlockValueLimit

\* C11 witness: two blocks were mined, the first of them as full as the
\* limit allows, the second with a transfer in it.
C11_Witness ==
    /\ Len(chain) = 3
    /\ Len(chain[2].transactions) = BlockTxLimit
    /\ Len(chain[3].transactions) >= 2

\* C13: mine_pending_transactions returns Ok: the block it has just mined
\* passes is_valid_new_block against the head of the chain.
C13_MinedBlockAccepted == (last_op = "mine") => (result = "Ok")

\* C14: a successful mine_pending_transactions changes the balances by the
\* transactions of the block it appended, and by nothing else.
C14_BalancesFollowNewBlock ==
    [][(last_op' = "mine" /\ result' = "Ok")
          => balances' = ApplyTransactions(balances,
                                           chain'[Len(chain')].transactions)]_vars

\* the transfers of main.rs are the transactions of block 1, in some order,
\* followed by the reward
MainBlockMined ==
    /\ Len(chain) = 2
    /\ Len(chain[2].transactions) = 4
    /\ {chain[2].transactions[i] : i \in 1..3} = {tx1, tx2, tx3}

\* C15: on the ledger of main.rs (alice 100, bob 50, charlie 0) each of tx1,
\* tx2, tx3 (30, 15, 20; fee 0.1) is admitted when submitted to a mempool of
\* these transfers that does not hold it; and when mine_pending_transactions
\* has mined them into block 1, the mempool is empty, alice has
\* 100 - 30 - 20, bob 50 - 15 + 30, charlie 15 + 20, the miner the reward of
\* 10 on top of that, and validate_chain() is true.
C15_MainScenario ==
    /\ (/\ Len(chain) = 1
        /\ last_op = "add"
        /\ last_tx \in {tx1, tx2, tx3}
        /\ Range(mempool) \subseteq {tx1, tx2, tx3}
        /\ ~(result = ErrDuplicate /\ last_tx \in Range(mempool)))
          => (result = "Ok" /\ last_tx \in Range(mempool))
    /\ (MainBlockMined /\ last_op = "mine")
          => /\ result = "Ok"
             /\ mempool = <<>>
             /\ chain[2].transactions[4].from = "Blockchain"
             /\ chain[2].transactions[4].to \in Miners
             /\ LET reward(a) == IF chain[2].transactions[4].to = a
                                 THEN 10 * Coin ELSE 0
                IN  /\ get_balance(balances, "A") = 50 * Coin + reward("A")
                    /\ get_balance(balances, "B") = 65 * Coin + reward("B")
                    /\ get_balance(balances, "C") = 35 * Coin + reward("C")
             /\ validate_chain(chain, difficulty)

\* C15 witness: block 1 holds tx1, tx2, tx3 in this order and bob's reward.
C15_Witness ==
    /\ MainBlockMined /\ last_op = "mine"
    /\ SubSeq(chain[2].transactions, 1, 3) = <<tx1, tx2, tx3>>
    /\ chain[2].transactions[4].to = "B"

\* the last call appended a block and adjust_difficulty did not return early;
\* the block holds the difficulty it was mined with, the one before the step
Adjusted ==
    /\ last_op = "mine" /\ result = "Ok"
    /\ Len(chain) >= difficulty_adjustment_interval
previous_difficulty == chain[Len(chain)].difficulty
\* actual_time and expected_time of that adjustment, in ticks
actual_time ==
    chain[Len(chain)].timestamp
       - chain[Len(chain) - difficulty_adjustment_interval + 1].timestamp
expected_time == target_block_time * difficulty_adjustment_interval

\* C18: after an adjustment over an interval mined faster than the target
\* (actual elapsed time below the expected time) the difficulty is strictly
\* greater than before, for every previous difficulty >= 1.
C18_FasterRaises ==
    (Adjusted /\ actual_time < expected_time) => difficulty > previous_difficulty

\* C19: after an adjustment over an interval mined slower than the target
\* (actual elapsed time above the expected time) the difficulty is strictly
\* lower than before, whenever the previous difficulty is greater than 1.
C19_SlowerLowers ==
    (Adjusted /\ actual_time > expected_time /\ previous_difficulty > 1)
        => difficulty < previous_difficulty

\* C20: the difficulty is at least 1 in every state, and an adjustment takes
\* d to a d' within half a unit (the rounding) of the interval from d / 1.25
\* to d / 0.75, whatever the elapsed time.
C20_DifficultyBounded ==
    /\ difficulty >= 1
    /\ Adjusted => /\ 10 * difficulty >= 8 * previous_difficulty - 5
                   /\ 6 * difficulty <= 8 * previous_difficulty + 3

\* C20 witness: an adjustment over a slow interval lowered the difficulty,
\* and the ledger before it had raised the difficulty.
C20_Witness ==
    /\ Adjusted
    /\ actual_time > expected_time
    /\ difficulty < previous_difficulty
    /\ previous_difficulty > chain[1].difficulty

\* the stored hash of b is the hash of its fields and meets the target of d
Mined(b, d) == b.hash = Block_calculate_hash(b) /\ b.hash <= Target(d)

\* C12: when mine_block(difficulty) returns, whatever the difficulty and the
\* nonce it started from, the stored hash is calculate_hash() of the block
\* and its leading bits are <= 2^(128 - difficulty) - 1; and every block of
\* the chain after the genesis block is so for the difficulty it records.
C12_MinedMeetsTarget ==
    /\ mined # NoMined => Mined(mined.block, mined.difficulty)
    /\ \A w \in Workers :
          w_pc[w] \in {"lock", "write"} => Mined(local_block[w], difficulty)
    /\ \A i \in 2..Len(chain) : Mined(chain[i], chain[i].difficulty)

\* C12 witness: mine_block was called on a block of nonce above 0 with a
\* difficulty above the one the block records, and searched on.
C12_Witness ==
    /\ last_op = "mine_block"
    /\ Len(chain) = 3
    /\ chain[3].nonce > 0
    /\ mined.difficulty > chain[3].difficulty
    /\ mined.block.nonce > chain[3].nonce

\* a search is under way and every worker has returned
AllDone == \A w \in Workers : w_pc[w] = "done"

\* C16: in every interleaving the result slot is written at most once, by
\* the worker that set `found` from false to true and by no other; and when
\* every worker has finished, the slot holds a block whose hash meets the
\* target.
C16_SlotWrittenOnce ==
    /\ slot_writes <= 1
    /\ slot_writes = 1 => (found /\ winner # 0)
    /\ \A w \in Workers : w_pc[w] = "write" => (winner = w /\ slot_writes = 0)
    /\ AllDone => /\ slot_writes = 1
                  /\ Mined(mineable_block, difficulty)
                  /\ mineable_block = local_block[winner]

\* C16 witness: every worker has finished, and one that did not set the flag
\* had found a nonce of its own and met the flag set.
C16_Witness ==
    /\ AllDone
    /\ \E w \in Workers :
          /\ w # winner
          /\ local_block[w].nonce > 0
          /\ Mined(local_block[w], difficulty)

\* C17: once `found` is set, a worker still searching makes at most one more
\* hash attempt before it stops, so none has to find a nonce of its own.
C17_StragglerStops == \A w \in Workers : late_attempts[w] <= 1

\* C23: after every sequence of successful mine_pending_transactions calls,
\* also one in which adjust_difficulty raised the difficulty, validate_chain()
\* and is_chain_valid() are true: every block that was accepted still passes.
C23_ChainStaysValid ==
    /\ validate_chain(chain, difficulty)
    /\ is_chain_valid(chain, difficulty)

\* C26: mine_pending_transactions loses no unexpired transaction: each one
\* it removed from the mempool or from pending_transactions is, when the call
\* returns, in the block the call appended or back in the buffer it came
\* from, also when the call returns Err("Invalid block"); and on that error
\* the chain, the balances and the difficulty are unchanged.
C26_NothingLost ==
    [][ (last_op' = "mine")
        => LET appended == IF result' = "Ok"
                           THEN Range(chain'[Len(chain')].transactions) ELSE {}
               current_time == clock \div TicksPerSecond
           IN  /\ \A i \in 1..Len(mempool) :
                     mempool[i].expiration > current_time
                        => mempool[i] \in appended \cup Range(mempool')
               /\ \A i \in 1..Len(pending_transactions) :
                     pending_transactions[i].expiration > current_time
                        => pending_transactions[i]
                              \in appended \cup Range(pending_transactions')
               /\ result' = "Invalid block"
                     => /\ chain' = chain
                        /\ balances' = balances
                        /\ difficulty' = difficulty
      ]_vars

\* the block Block::new made of the fields of b: nonce 0, the first hash
candidate_of(b) ==
    Block_new(b.index, b.transactions, b.previous_hash, b.difficulty, b.timestamp)

\* C27: in every interleaving and for every number of workers, the block
\* the search publishes in the shared slot is the one a single sequential
\* mine_block on the candidate block (nonce 0) produces with the difficulty
\* of the search, which the block records: same nonce, same hash, whichever
\* worker won.
C27_PublishedIsSequential ==
    AllDone
       => mineable_block = mine_block(candidate_of(mineable_block),
                                      mineable_block.difficulty)

\* C27 witness: every worker has returned, the last worker spawned won with
\* a nonce above 0, and another worker met the flag set before it searched.
C27_Witness ==
    /\ AllDone
    /\ winner = NumWorkers
    /\ mineable_block.nonce > 0
    /\ \E w \in Workers : w # winner /\ local_block[w].nonce = 0

\* C25: every transaction add_to_mempool or replace_transaction accepts
\* carries a signature that verifies against its sender, and none names the
\* reserved sender "Blockchain": no admitted transaction moves the funds of
\* an address that did not sign it.
C25_AdmittedIsSigned ==
    (last_op \in {"add", "replace"} /\ result = "Ok")
        => /\ last_tx.from # "Blockchain"
           /\ verify(last_tx.from, calculate_hash(last_tx), last_tx.signature)

\* amount + fee summed over the entries of mp that `sender` sent
RECURSIVE pending_cost(_, _)
pending_cost(mp, sender) ==
    IF mp = <<>> THEN 0
    ELSE (IF Head(mp).from = sender THEN Head(mp).amount + Head(mp).fee ELSE 0)
            + pending_cost(Tail(mp), sender)

\* C24: while the balances are as the funding left them, after every
\* sequence of add_to_mempool calls the pending transactions of each sender
\* cost together, amount + fee, no more than the sender's balance, however
\* many they are.
C24_PendingWithinBalance ==
    \A sender \in Addrs :
        pending_cost(mempool, sender) <= get_balance(balances, sender)

\* C21: every block mine_pending_transactions appends ends with the reward
\* transaction that call created (sender "Blockchain", recipient
\* miner_address, amount mining_reward, fee 0), and what precedes it is the
\* head of the unexpired mempool, up to 1000 entries (MaxTake here), or,
\* only when the mempool yields none, the whole of pending_transactions,
\* which is empty afterwards.
C21_RewardLast ==
    [][ \A miner_address \in LegacyMiners :
          (/\ last_op' = "mine"
           /\ result' = "Ok"
           /\ MinePendingTransactions(miner_address))
          => LET b == chain'[Len(chain')]
                 n == Len(b.transactions)
                 reward_tx == b.transactions[n]
                 body == SubSeq(b.transactions, 1, n - 1)
                 current_time == clock \div TicksPerSecond
                 kept == SelectSeq(mempool, LAMBDA tx : tx.expiration > current_time)
             IN  /\ n >= 1
                 /\ reward_tx.from = "Blockchain"
                 /\ reward_tx.to = miner_address
                 /\ reward_tx.amount = mining_reward
                 /\ reward_tx.fee = 0
                 /\ reward_tx.timestamp = current_time
                 /\ reward_tx \notin Range(mempool) \cup Range(pending_transactions)
                 /\ \A i \in 1..(n - 1) : body[i] # reward_tx
                 /\ IF kept # <<>>
                    THEN /\ body = SubSeq(kept, 1, Min(MaxTake, Len(kept)))
                         /\ pending_transactions' = pending_transactions
                    ELSE /\ body = pending_transactions
                         /\ pending_transactions' = <<>>
      ]_vars

\* C21 witness: the first block was made of a mempool entry while the
\* buffer held two transactions, and the second of the whole buffer when the
\* one entry of the mempool had expired.
C21_Witness ==
    /\ last_op = "mine" /\ result = "Ok"
    /\ Len(chain) = 3
    /\ chain[2].transactions[1] = tx3
    /\ Len(chain[3].transactions) = 3
    /\ SubSeq(chain[3].transactions, 1, 2) = <<tx1, tx2>>
    /\ removed = <<tx_brief>>
    /\ pending_transactions = <<>>

\* C22: a recalculate_balances() call that follows another one leaves every
\* address with the balance the first call gave it.
C22_ReplayIdempotent ==
    [][ (last_op' = "recalculate" /\ replays' = 2)
        => \A a \in Addrs : get_balance(balances', a) = get_balance(balances, a)
      ]_vars

\* C22 witness: recalculate_balances was called twice in a row on a chain of
\* two mined blocks with transfers in them, where the balances before the
\* first call were not those of the replay.
C22_Witness ==
    /\ last_op = "recalculate" /\ replays = 2
    /\ Len(chain) = 3
    /\ Len(chain[2].transactions) >= 2
    /\ Len(chain[3].transactions) >= 2
    /\ balances # update_balances(update_balances(MainFunds, SubSeq(chain, 1, 2)),
                                  chain)

====
